---------------------------- MODULE Spec2Model ----------------------------
(***************************************************************************)
(* Sales ledger of eduverc/Analise-vendas-Edu.                             *)
(*                                                                         *)
(* The repository holds two variants of the same program:                  *)
(*   src/AnaliseVendasEdu.py   module-level functions over the globals     *)
(*                             vendas / contador_id;                       *)
(*   src/RelatorioFinalEdu.py  class SistemaVendas with self.vendas /      *)
(*                             self.contador_id.                           *)
(* One run executes one of the two; the variable variante says which.      *)
(*                                                                         *)
(* Text is a sequence of one-character strings, so that str.strip, the     *)
(* truth value of a str, indexing, strptime and strftime are computed      *)
(* character by character.  A Python float is an IEEE-754 binary64 value,  *)
(* held exactly as a natural number of units of 2^-FracBits in limbs of    *)
(* base 2^15; every float operation rounds to 53 significant bits, ties    *)
(* to even.  Python's None is the empty sequence, a present value v is     *)
(* <<v>>.  A dict is the sequence of its (key, value) items in insertion   *)
(* order.                                                                  *)
(***************************************************************************)
EXTENDS Integers, Sequences, FiniteSets, TLC

(***************************************************************************)
(* Bounds of the model.                                                    *)
(***************************************************************************)
\* Largest number of stored sales explored under Spec (validation).
MaxVendas == 2
\* Largest number of stored sales explored under SpecAgregacao.
MaxVendasAgregacao == 3

\* Largest number of stored sales explored under SpecConsultas (queries).
MaxVendasConsultas == 3
\* Largest number of stored sales explored under SpecIdempotencia.
MaxVendasIdempotencia == 2

None == <<>>
Some(v) == <<v>>

(***************************************************************************)
(* str: characters, truth value, strip.                                    *)
(***************************************************************************)
\* The characters str.strip() removes (str.isspace) that occur in the model.
Whitespace == {" ", "\t", "\n"}

DigitChars == <<"0", "1", "2", "3", "4", "5", "6", "7", "8", "9">>
Digits == {DigitChars[i] : i \in 1..10}
IsDigit(c) == c \in Digits
DigitVal(c) == (CHOOSE i \in 1..10 : DigitChars[i] = c) - 1

\* bool(s) of a str: true iff it is not empty.
Truthy(s) == Len(s) > 0

RECURSIVE LStrip(_)
LStrip(s) ==
    IF s # <<>> /\ Head(s) \in Whitespace THEN LStrip(Tail(s)) ELSE s

RECURSIVE RStrip(_)
RStrip(s) ==
    IF s # <<>> /\ s[Len(s)] \in Whitespace
    THEN RStrip(SubSeq(s, 1, Len(s) - 1))
    ELSE s

\* A plausible slip: strip only the left side.
strip_mutant(s) == LStrip(s)

\* str.strip()
strip(s) == RStrip(LStrip(s))

(***************************************************************************)
(* datetime.strptime(data, '%Y-%m-%d') and datetime.strftime.              *)
(*                                                                         *)
(* strptime compiles the format to the regular expression                  *)
(*   (?P<Y>\d\d\d\d)-(?P<m>1[0-2]|0[1-9]|[1-9])-                           *)
(*   (?P<d>3[0-1]|[1-2]\d|0[1-9]|[1-9]| [1-9])                             *)
(* matches it at the start of the text, raises ValueError when the match   *)
(* fails or does not consume the whole text, and then builds the date,     *)
(* which raises ValueError for year 0 or a day the month does not have.    *)
(***************************************************************************)
At(s, i) == IF i >= 1 /\ i <= Len(s) THEN s[i] ELSE ""

NonZeroDigits == Digits \ {"0"}

\* Lengths of the alternatives of (?P<m>...) that match at position p, in
\* the order the regular expression tries them.
MatchMonth(s, p) ==
       (IF At(s, p) = "1" /\ At(s, p + 1) \in {"0", "1", "2"} THEN <<2>> ELSE <<>>)
    \o (IF At(s, p) = "0" /\ At(s, p + 1) \in NonZeroDigits THEN <<2>> ELSE <<>>)
    \o (IF At(s, p) \in NonZeroDigits THEN <<1>> ELSE <<>>)

\* The same for (?P<d>...).
MatchDay(s, p) ==
       (IF At(s, p) = "3" /\ At(s, p + 1) \in {"0", "1"} THEN <<2>> ELSE <<>>)
    \o (IF At(s, p) \in {"1", "2"} /\ At(s, p + 1) \in Digits THEN <<2>> ELSE <<>>)
    \o (IF At(s, p) = "0" /\ At(s, p + 1) \in NonZeroDigits THEN <<2>> ELSE <<>>)
    \o (IF At(s, p) \in NonZeroDigits THEN <<1>> ELSE <<>>)
    \o (IF At(s, p) = " " /\ At(s, p + 1) \in NonZeroDigits THEN <<2>> ELSE <<>>)

\* int(text) of a run of digits, leading blanks skipped (int(" 5") = 5).
RECURSIVE ToInt(_)
ToInt(s) ==
    IF s = <<>> THEN 0
    ELSE IF s[Len(s)] = " " THEN 0
    ELSE 10 * ToInt(SubSeq(s, 1, Len(s) - 1)) + DigitVal(s[Len(s)])

IsLeap(y) == y % 4 = 0 /\ (y % 100 # 0 \/ y % 400 = 0)

DaysInMonth(y, m) ==
    IF m = 2 THEN (IF IsLeap(y) THEN 29 ELSE 28)
    ELSE IF m \in {4, 6, 9, 11} THEN 30 ELSE 31

\* A plausible slip: the shape is checked, the calendar is not.
strptime_mutant(s) ==
    IF Len(s) = 10 /\ s[5] = "-" /\ s[8] = "-"
       /\ \A i \in {1, 2, 3, 4, 6, 7, 9, 10} : IsDigit(s[i])
    THEN Some([year |-> ToInt(SubSeq(s, 1, 4)), month |-> ToInt(SubSeq(s, 6, 7)),
               day |-> ToInt(SubSeq(s, 9, 10))])
    ELSE None

\* datetime.strptime(s, '%Y-%m-%d'): None stands for ValueError.
strptime(s) ==
    LET okY  == /\ Len(s) >= 5
                /\ \A i \in 1..4 : IsDigit(s[i])
                /\ s[5] = "-"
        Follows(l) == At(s, 6 + l) = "-" /\ MatchDay(s, 7 + l) # <<>>
        good == SelectSeq(MatchMonth(s, 6), Follows)
    IN  IF ~okY \/ good = <<>> THEN None
        ELSE LET ml == good[1]
                 dl == MatchDay(s, 7 + ml)[1]
                 y  == ToInt(SubSeq(s, 1, 4))
                 m  == ToInt(SubSeq(s, 6, 5 + ml))
                 d  == ToInt(SubSeq(s, 7 + ml, 6 + ml + dl))
             IN  IF 6 + ml + dl # Len(s) THEN None       \* unconverted data remains
                 ELSE IF y < 1 \/ d > DaysInMonth(y, m) THEN None
                 ELSE Some([year |-> y, month |-> m, day |-> d])

\* str(n) of a natural number.
RECURSIVE IntToText(_)
IntToText(n) ==
    IF n < 10 THEN <<DigitChars[n + 1]>>
    ELSE IntToText(n \div 10) \o <<DigitChars[(n % 10) + 1]>>

\* '%02d' % n
Pad2(n) == IF n < 10 THEN <<"0">> \o IntToText(n) ELSE IntToText(n)

\* '%04d' % n
Pad4(n) ==
    LET t == IntToText(n) IN [i \in 1..(4 - Len(t)) |-> "0"] \o t

\* strftime's %Y: the C library's, which on Linux (glibc) does not pad a
\* year below 1000 (datetime(999, 1, 1).strftime('%Y') = '999').
FormatYear(y) == IntToText(y)

\* data_obj.strftime('%Y-%m-%d')
strftime_Ymd(dt) ==
    FormatYear(dt.year) \o <<"-">> \o Pad2(dt.month) \o <<"-">> \o Pad2(dt.day)

\* data_obj.strftime('%Y-%m')
strftime_Ym(dt) == FormatYear(dt.year) \o <<"-">> \o Pad2(dt.month)

(***************************************************************************)
(* Natural numbers of any size, as little-endian limbs of base 2^15        *)
(* without high zero limbs (zero is <<>>).  They carry the exact value of  *)
(* a float: Python's float is a C double, 53 significant bits.             *)
(***************************************************************************)
LimbBits == 15
Base == 2^LimbBits
\* Significant bits of an IEEE-754 binary64 value (sys.float_info.mant_dig).
MantDig == 53
\* A float x is held as the natural number x * 2^FracBits.  Every binary64
\* value of magnitude at least 2^(MantDig - 1 - FracBits) = 2^-23 is such a
\* number, and a quotient of magnitude at least 2^(MantDig - FracBits) = 2^-22
\* is rounded from its floor and remainder as from its exact value; the
\* model's inputs keep every nonzero value above that.
FracBits == 75

RECURSIVE BNorm(_)
BNorm(a) ==
    IF a = <<>> THEN <<>>
    ELSE IF a[Len(a)] = 0 THEN BNorm(SubSeq(a, 1, Len(a) - 1))
    ELSE a

RECURSIVE BFromInt(_)
BFromInt(x) == IF x = 0 THEN <<>> ELSE <<x % Base>> \o BFromInt(x \div Base)

RECURSIVE BToInt(_)
BToInt(a) == IF a = <<>> THEN 0 ELSE a[1] + Base * BToInt(Tail(a))

RECURSIVE BAddFrom(_, _, _, _)
BAddFrom(a, b, i, c) ==
    IF i > Len(a) /\ i > Len(b) THEN (IF c = 0 THEN <<>> ELSE <<c>>)
    ELSE LET x == (IF i <= Len(a) THEN a[i] ELSE 0)
                  + (IF i <= Len(b) THEN b[i] ELSE 0) + c
         IN  <<x % Base>> \o BAddFrom(a, b, i + 1, x \div Base)

BAdd(a, b) == BAddFrom(a, b, 1, 0)

RECURSIVE BMulFrom(_, _, _, _)
BMulFrom(a, k, i, c) ==
    IF i > Len(a) THEN (IF c = 0 THEN <<>> ELSE <<c>>)
    ELSE LET x == a[i] * k + c
         IN  <<x % Base>> \o BMulFrom(a, k, i + 1, x \div Base)

\* a * k for 0 <= k < Base
BMulSmall(a, k) == BNorm(BMulFrom(a, k, 1, 0))

\* Limbs i..1 of a divided by d, with r carried in from above.
RECURSIVE BDivFrom(_, _, _, _)
BDivFrom(a, d, i, r) ==
    IF i = 0 THEN [q |-> <<>>, r |-> r]
    ELSE LET cur  == r * Base + a[i]
             rest == BDivFrom(a, d, i - 1, cur % d)
         IN  [q |-> Append(rest.q, cur \div d), r |-> rest.r]

\* Quotient and remainder of a by d, for 0 < d <= Base
BDivModSmall(a, d) ==
    LET x == BDivFrom(a, d, Len(a), 0) IN [q |-> BNorm(x.q), r |-> x.r]

\* a * 2^s
BShl(a, s) ==
    IF a = <<>> THEN <<>>
    ELSE IF s % LimbBits = 0 THEN [i \in 1..(s \div LimbBits) |-> 0] \o a
    ELSE BMulSmall([i \in 1..(s \div LimbBits) |-> 0] \o a, 2^(s % LimbBits))

\* a div 2^s
BShr(a, s) ==
    IF Len(a) <= s \div LimbBits THEN <<>>
    ELSE IF s % LimbBits = 0 THEN SubSeq(a, (s \div LimbBits) + 1, Len(a))
    ELSE BDivModSmall(SubSeq(a, (s \div LimbBits) + 1, Len(a)), 2^(s % LimbBits)).q

\* a mod 2^s
BLow(a, s) ==
    LET w == s \div LimbBits
    IN  IF Len(a) <= w THEN a
        ELSE BNorm(SubSeq(a, 1, w) \o <<a[w + 1] % (2^(s % LimbBits))>>)

RECURSIVE BitLenInt(_)
BitLenInt(x) == IF x = 0 THEN 0 ELSE 1 + BitLenInt(x \div 2)

BBitLen(a) ==
    IF a = <<>> THEN 0 ELSE LimbBits * (Len(a) - 1) + BitLenInt(a[Len(a)])

RECURSIVE BCmpFrom(_, _, _)
BCmpFrom(a, b, i) ==
    IF i = 0 THEN 0
    ELSE IF a[i] < b[i] THEN -1
    ELSE IF a[i] > b[i] THEN 1
    ELSE BCmpFrom(a, b, i - 1)

\* -1, 0 or 1 as a < b, a = b or a > b
BCmp(a, b) ==
    IF Len(a) < Len(b) THEN -1
    ELSE IF Len(a) > Len(b) THEN 1
    ELSE BCmpFrom(a, b, Len(a))

BIsOdd(a) == a # <<>> /\ a[1] % 2 = 1

\* A plausible slip in the arithmetic: chop instead of rounding to nearest.
RoundSig_mutant(a, sticky) ==
    LET L == BBitLen(a)
    IN  IF L <= MantDig THEN a ELSE BShl(BShr(a, L - MantDig), L - MantDig)

\* a rounded to MantDig significant bits, to nearest, ties to even; sticky
\* says that the exact value lies strictly above a (bits already dropped).
\* With sh bits to drop, w whole limbs and b bits of limb w + 1 go.
RoundSig(a, sticky) ==
    LET L == BBitLen(a)
    IN  IF L <= MantDig THEN a
        ELSE LET sh == L - MantDig
                 w  == sh \div LimbBits
                 b  == sh % LimbBits
                 hi == a[w + 1]
                 t  == hi % (2^b)
                 \* the dropped part against half a unit: -1, 0 or 1
                 c  == IF b >= 1
                       THEN (IF t > 2^(b - 1) THEN 1
                             ELSE IF t < 2^(b - 1) THEN -1
                             ELSE IF \A i \in 1..w : a[i] = 0 THEN 0 ELSE 1)
                       ELSE (IF a[w] > Base \div 2 THEN 1
                             ELSE IF a[w] < Base \div 2 THEN -1
                             ELSE IF \A i \in 1..(w - 1) : a[i] = 0 THEN 0 ELSE 1)
                 odd == (hi \div (2^b)) % 2 = 1
                 up  == c = 1 \/ (c = 0 /\ (sticky \/ odd))
                 kept == [i \in 1..Len(a) |->
                             IF i <= w THEN 0 ELSE IF i = w + 1 THEN hi - t ELSE a[i]]
                 unit == [i \in 1..(w + 1) |-> IF i = w + 1 THEN 2^b ELSE 0]
             IN  IF up THEN BAdd(kept, unit) ELSE kept

(***************************************************************************)
(* float: [nan, neg, n] with n = |x| * 2^FracBits.  Arithmetic is needed   *)
(* on the values of stored sales only, which are nan or not negative.      *)
(***************************************************************************)
NaN == [nan |-> TRUE, neg |-> FALSE, n |-> <<>>]
Fin(n) == [nan |-> FALSE, neg |-> FALSE, n |-> n]
FZero == Fin(<<>>)
FNeg(x) == [x EXCEPT !.neg = (x.n # <<>>)]

\* float(int) for a small natural number
FloatOfInt(k) == Fin(BShl(BFromInt(k), FracBits))

\* float("m.ddd"): the binary64 nearest to m / 10^d (m a natural number
\* written with d decimals), as float() and a float literal give.
FloatOfDecimal(m, d) ==
    LET x == BDivModSmall(BShl(BFromInt(m), FracBits), 10^d)
    IN  Fin(RoundSig(x.q, x.r # 0))

\* x <= 0 (false for nan)
FLeZero(x) == ~x.nan /\ (x.neg \/ x.n = <<>>)

\* x > 0 (false for nan)
FGtZero(x) == ~x.nan /\ ~x.neg /\ x.n # <<>>

\* x == y (false when either is nan)
FEq(x, y) == ~x.nan /\ ~y.nan /\ x = y

\* x + y
FAdd(x, y) ==
    IF x.nan \/ y.nan THEN NaN ELSE Fin(RoundSig(BAdd(x.n, y.n), FALSE))

\* k * x for an int k >= 0 (k converts exactly; one rounding)
FMulInt(k, x) ==
    IF x.nan THEN NaN ELSE Fin(RoundSig(BMulSmall(x.n, k), FALSE))

\* x / k for an int k > 0
FDivInt(x, k) ==
    IF x.nan THEN NaN
    ELSE LET d == BDivModSmall(x.n, k)
         IN  Fin(RoundSig(d.q, d.r # 0))

\* A plausible slip: cut the cents instead of rounding them.
round2_mutant(x) ==
    IF x.nan THEN NaN
    ELSE FloatOfDecimal(BToInt(BShr(BMulSmall(x.n, 100), FracBits)), 2)

\* round(x, 2): the decimal with two places nearest to the exact value of
\* x, ties to even, converted back to the nearest float.
round2(x) ==
    IF x.nan THEN NaN
    ELSE LET y == BMulSmall(x.n, 100)
             k == BShr(y, FracBits)
             c == BCmp(BLow(y, FracBits), BShl(<<1>>, FracBits - 1))
             up == c = 1 \/ (c = 0 /\ BIsOdd(k))
         IN  FloatOfDecimal(BToInt(IF up THEN BAdd(k, <<1>>) ELSE k), 2)

(***************************************************************************)
(* Arguments of registrar_venda explored by the model.                     *)
(***************************************************************************)
TextoVazio == <<>>
TextoEspacos == <<" ", " ">>
TextoMouse == <<"M", "o", "u", "s", "e">>
TextoMouseComEspacos == <<" ", "M", "o", "u", "s", "e", "\t">>
TextoNotebook == <<"N", "o", "t", "e", "b", "o", "o", "k">>
TextoAna == <<"A", "n", "a">>
TextoAnaMinusculo == <<"a", "n", "a">>
TextoAnaComEspacos == <<"\t", "A", "n", "a", " ">>

\* An argument of Python type int, bool or float given for quantidade, and
\* of type float, int or str given for valor_unitario.
QInt(v) == [tipo |-> "int", v |-> v]
QBool(v) == [tipo |-> "bool", v |-> v]
QFloat(v) == [tipo |-> "float", v |-> v]
VFloat(x) == [tipo |-> "float", x |-> x]
VInt(v) == [tipo |-> "int", x |-> IF v < 0 THEN FNeg(FloatOfInt(-v)) ELSE FloatOfInt(v)]
VStr == [tipo |-> "str", x |-> FZero]

\* '2024-01-15': the valid, zero-padded date of the example data
D_2024_01_15 == <<"2", "0", "2", "4", "-", "0", "1", "-", "1", "5">>
\* '2024-02-29': 29 February of a leap year
D_2024_02_29 == <<"2", "0", "2", "4", "-", "0", "2", "-", "2", "9">>
\* '2023-02-29': 29 February of a common year
D_2023_02_29 == <<"2", "0", "2", "3", "-", "0", "2", "-", "2", "9">>
\* '2024-13-01': month 13
D_2024_13_01 == <<"2", "0", "2", "4", "-", "1", "3", "-", "0", "1">>
\* '2024-1-5': month and day without zero padding
D_2024_1_5 == <<"2", "0", "2", "4", "-", "1", "-", "5">>
\* '2024-01- 5': day padded with a blank
D_2024_01_s5 == <<"2", "0", "2", "4", "-", "0", "1", "-", " ", "5">>
\* '2024-01-15 ': a trailing blank
D_2024_01_15_s == <<"2", "0", "2", "4", "-", "0", "1", "-", "1", "5", " ">>
\* '15/01/2024': day first, slashes
D_15_01_2024 == <<"1", "5", "/", "0", "1", "/", "2", "0", "2", "4">>
\* '0999-01-01': a year below 1000
D_0999_01_01 == <<"0", "9", "9", "9", "-", "0", "1", "-", "0", "1">>
\* '0000-01-01': year 0
D_0000_01_01 == <<"0", "0", "0", "0", "-", "0", "1", "-", "0", "1">>

Quantidades == {QInt(1), QInt(2), QInt(0), QInt(-1), QFloat(2), QBool(1)}

\* 2.675 lies below 2.675 in binary (twice it rounds to 5.35, truncates to
\* 5.34); twice 0.1875 is 0.375, an exact tie (round gives 0.38).
Valores ==
    {VFloat(FloatOfDecimal(2675, 3)), VFloat(FloatOfDecimal(1875, 4)),
     VFloat(FZero), VFloat(FNeg(FloatOfInt(1))), VFloat(NaN), VInt(10), VStr}

Datas ==
    {D_2024_01_15, D_2024_02_29, D_2023_02_29, D_2024_13_01, D_2024_1_5,
     D_2024_01_s5, D_2024_01_15_s, D_15_01_2024, D_0999_01_01, D_0000_01_01,
     TextoVazio, TextoEspacos}

Produtos == {TextoMouse, TextoMouseComEspacos, TextoEspacos, TextoVazio}

Vendedores == {TextoAna, TextoAnaComEspacos, TextoEspacos, TextoVazio}

Chamada(produto, vendedor, quantidade, valor_unitario, data) ==
    [produto |-> produto, vendedor |-> vendedor, quantidade |-> quantidade,
     valor_unitario |-> valor_unitario, data |-> data]

\* The valid call the others are varied from.
ProdutoBase == TextoMouse
VendedorBase == TextoAna
QuantidadeBase == QInt(2)
ValorBase == VFloat(FloatOfDecimal(2675, 3))
DataBase == D_2024_01_15

\* The calls explored under Spec: each argument in turn takes its valid and
\* its invalid values while the others keep a valid one.
Chamadas ==
    {Chamada(p, VendedorBase, QuantidadeBase, ValorBase, DataBase) : p \in Produtos}
    \cup {Chamada(ProdutoBase, v, QuantidadeBase, ValorBase, DataBase) : v \in Vendedores}
    \cup {Chamada(ProdutoBase, VendedorBase, q, ValorBase, DataBase) : q \in Quantidades}
    \cup {Chamada(ProdutoBase, VendedorBase, QuantidadeBase, x, DataBase) : x \in Valores}
    \cup {Chamada(ProdutoBase, VendedorBase, QuantidadeBase, ValorBase, d) : d \in Datas}

\* The calls explored under SpecAgregacao: valid sales of two products by
\* sellers whose names differ only in case, at prices of the example data.
ChamadasAgregacao ==
    {Chamada(pv[1], v, q, VFloat(pv[2]), D_2024_01_15) :
        pv \in {<<TextoMouse, FloatOfDecimal(8990, 2)>>,
                <<TextoMouse, FloatOfDecimal(5000, 2)>>,
                <<TextoNotebook, FloatOfDecimal(100000, 2)>>},
        v \in {TextoAna, TextoAnaMinusculo},
        q \in {QInt(1), QInt(2)}}

TextoAnaPereira == <<"A", "n", "a", " ", "P", "e", "r", "e", "i", "r", "a">>
TextoBia == <<"B", "i", "a">>
TextoAN == <<"A", "N">>
TextoX == <<"x">>

\* The calls explored under SpecConsultas: valid for SistemaVendas, by three
\* sellers, of two products, in three months of which one lies in the year
\* 999, one of them at a price of nan.
ChamadasConsultas ==
    {Chamada(TextoNotebook, TextoAnaPereira, QInt(2),
             VFloat(FloatOfDecimal(100000, 2)), D_2024_01_15),
     Chamada(TextoMouse, TextoAnaMinusculo, QInt(1),
             VFloat(FloatOfDecimal(5000, 2)), D_2024_02_29),
     Chamada(TextoMouse, TextoBia, QInt(2),
             VFloat(FloatOfDecimal(5000, 2)), D_2024_1_5),
     Chamada(TextoMouse, TextoBia, QInt(1), VFloat(NaN), D_2024_01_15),
     Chamada(TextoNotebook, TextoAnaMinusculo, QInt(1),
             VFloat(FloatOfDecimal(5000, 2)), D_0999_01_01),
     Chamada(TextoMouse, TextoAnaPereira, QInt(1),
             VFloat(FloatOfDecimal(8990, 2)), D_2024_02_29)}

\* The calls explored under SpecIdempotencia: two valid ones, one of them
\* at a price of nan, and one that is rejected.
ChamadasIdempotencia ==
    {Chamada(TextoNotebook, TextoAnaPereira, QInt(2),
             VFloat(FloatOfDecimal(100000, 2)), D_2024_01_15),
     Chamada(TextoMouse, TextoBia, QInt(1), VFloat(NaN), D_2024_02_29),
     Chamada(TextoMouse, TextoBia, QInt(0),
             VFloat(FloatOfDecimal(5000, 2)), D_2024_01_15)}

\* The limits given to the rankings and the names given to
\* gerar_relatorio_vendedor.
Limites == {0, 1, 5}
Nomes == {TextoAnaMinusculo, TextoAN, TextoX, TextoVazio}

(***************************************************************************)
(* State.                                                                  *)
(***************************************************************************)
VARIABLES
    variante,      \* which of the two programs runs
    vendas,        \* vendas / self.vendas: the list of sale dicts
    contador_id,   \* contador_id / self.contador_id
    chamada,       \* the arguments of the last call of registrar_venda
    retorno,       \* what that call returned: None or Some(the sale dict)
    consulta,      \* the query called last, after the last registrar_venda
    resultado,     \* what that query returned
    invocacoes,    \* how often each query function ran during that call
    lembrada       \* the first query since the last stored sale, what it
                   \* returned, and whether another query followed it

vars ==
    <<variante, vendas, contador_id, chamada, retorno,
      consulta, resultado, invocacoes, lembrada>>

\* The query functions of SistemaVendas.
Funcoes ==
    {"calcular_total_vendas", "calcular_vendas_por_vendedor",
     "calcular_vendas_por_produto", "calcular_vendas_por_mes",
     "ranking_vendedores", "ranking_produtos", "melhor_mes",
     "gerar_relatorio_geral", "gerar_relatorio_vendedor"}

\* Counts of invocations: none, one of f, and two counts added.
Nenhuma == [f \in Funcoes |-> 0]
Uma(f) == [g \in Funcoes |-> IF g = f THEN 1 ELSE 0]
Mais(a, b) == [f \in Funcoes |-> a[f] + b[f]]

Variantes == {"AnaliseVendasEdu", "RelatorioFinalEdu"}

\* vendas = [] and contador_id = 1, before any call.
Init ==
    /\ variante \in Variantes
    /\ vendas = <<>>
    /\ contador_id = 1
    /\ chamada = None
    /\ retorno = None
    /\ consulta = None
    /\ resultado = None
    /\ invocacoes = Nenhuma
    /\ lembrada = None

(***************************************************************************)
(* registrar_venda: the validations, one definition per if.                *)
(***************************************************************************)
\* if not all([produto, vendedor, data]): the three texts as given.
campos_texto_ok(produto, vendedor, data) ==
    Truthy(produto) /\ Truthy(vendedor) /\ Truthy(data)

\* A plausible slip: zero passes.
quantidade_ok_mutant(quantidade) ==
    quantidade.tipo \in {"int", "bool"} /\ ~(quantidade.v < 0)

\* if not isinstance(quantidade, int) or quantidade <= 0 (bool is an int).
quantidade_ok(quantidade) ==
    quantidade.tipo \in {"int", "bool"} /\ ~(quantidade.v <= 0)

\* if not isinstance(valor_unitario, (int, float)) or valor_unitario <= 0
valor_unitario_ok(valor_unitario) ==
    valor_unitario.tipo \in {"int", "float", "bool"} /\ ~FLeZero(valor_unitario.x)

\* if len(data) != 10 or data[4] != '-' or data[7] != '-' (AnaliseVendasEdu)
formato_data_ok(data) ==
    ~(Len(data) # 10 \/ data[5] # "-" \/ data[8] # "-")

\* A plausible slip: the new sale is put first.
append_mutant(lista, venda) == <<venda>> \o lista

\* vendas.append(venda)
append(lista, venda) == Append(lista, venda)

\* A plausible slip: the counter is not advanced.
incrementa_mutant(contador) == contador

\* contador_id += 1
incrementa(contador) == contador + 1

(***************************************************************************)
(* registrar_venda of AnaliseVendasEdu.py.                                 *)
(***************************************************************************)
\* The four ifs that return None, in their order.
rejeita(produto, vendedor, quantidade, valor_unitario, data) ==
    \/ ~campos_texto_ok(produto, vendedor, data)
    \/ ~quantidade_ok(quantidade)
    \/ ~valor_unitario_ok(valor_unitario)
    \/ ~formato_data_ok(data)

registrar_venda(produto, vendedor, quantidade, valor_unitario, data) ==
    /\ variante = "AnaliseVendasEdu"
    /\ chamada' = Some(Chamada(produto, vendedor, quantidade, valor_unitario, data))
    /\ UNCHANGED variante
    /\ consulta' = None /\ resultado' = None /\ invocacoes' = Nenhuma
    /\ IF rejeita(produto, vendedor, quantidade, valor_unitario, data)
       THEN /\ retorno' = None
            /\ UNCHANGED <<vendas, contador_id, lembrada>>
       ELSE LET valor_total == FMulInt(quantidade.v, valor_unitario.x)
                venda == [id |-> contador_id,
                          produto |-> strip(produto),
                          vendedor |-> strip(vendedor),
                          quantidade |-> quantidade.v,
                          valor_unitario |-> valor_unitario.x,
                          valor_total |-> valor_total,
                          data |-> data]
            IN  /\ vendas' = append(vendas, venda)
                /\ contador_id' = incrementa(contador_id)
                /\ retorno' = Some(venda)
                /\ lembrada' = None

(***************************************************************************)
(* SistemaVendas.registrar_venda of RelatorioFinalEdu.py.                  *)
(***************************************************************************)
\* The three ifs and the try/except that return None, in their order.
SistemaVendas_rejeita(produto, vendedor, quantidade, valor_unitario, data) ==
    \/ ~campos_texto_ok(produto, vendedor, data)
    \/ ~quantidade_ok(quantidade)
    \/ ~valor_unitario_ok(valor_unitario)
    \/ strptime(data) = None

SistemaVendas_registrar_venda(produto, vendedor, quantidade, valor_unitario, data) ==
    /\ variante = "RelatorioFinalEdu"
    /\ chamada' = Some(Chamada(produto, vendedor, quantidade, valor_unitario, data))
    /\ UNCHANGED variante
    /\ consulta' = None /\ resultado' = None /\ invocacoes' = Nenhuma
    /\ IF SistemaVendas_rejeita(produto, vendedor, quantidade, valor_unitario, data)
       THEN /\ retorno' = None
            /\ UNCHANGED <<vendas, contador_id, lembrada>>
       ELSE LET data_obj == strptime(data)[1]
                data_str == strftime_Ymd(data_obj)
                valor_total == round2(FMulInt(quantidade.v, valor_unitario.x))
                venda == [id |-> contador_id,
                          produto |-> strip(produto),
                          vendedor |-> strip(vendedor),
                          quantidade |-> quantidade.v,
                          valor_unitario |-> valor_unitario.x,
                          valor_total |-> valor_total,
                          data_str |-> data_str,
                          data_obj |-> data_obj]
            IN  /\ vendas' = append(vendas, venda)
                /\ contador_id' = incrementa(contador_id)
                /\ retorno' = Some(venda)
                /\ lembrada' = None

(***************************************************************************)
(* The aggregations.  They are the same in both programs.  A dict is the   *)
(* sequence of its items <<key, value>> in insertion order.                *)
(***************************************************************************)
\* The place of key k in dict d, 0 when d does not hold it.
dict_index(d, k) ==
    LET I == {i \in 1..Len(d) : d[i][1] = k}
    IN  IF I = {} THEN 0 ELSE CHOOSE i \in I : TRUE

\* stats[k] of a defaultdict: the value held, or one freshly made.
dict_get(d, k, default) ==
    IF dict_index(d, k) = 0 THEN default ELSE d[dict_index(d, k)][2]

\* stats[k] = v: a new key goes last, a key held keeps its place.
dict_set(d, k, v) ==
    IF dict_index(d, k) = 0
    THEN Append(d, <<k, v>>)
    ELSE [d EXCEPT ![dict_index(d, k)] = <<k, v>>]

\* sum(xs) of CPython up to 3.11: xs added one by one, left to right, to 0.
RECURSIVE sum_from(_, _)
sum_from(xs, acc) ==
    IF xs = <<>> THEN acc ELSE sum_from(Tail(xs), FAdd(acc, Head(xs)))

sum(xs) == sum_from(xs, FZero)

calcular_total_vendas ==
    IF vendas = <<>> THEN FZero
    ELSE sum([i \in 1..Len(vendas) |-> vendas[i].valor_total])

\* A plausible slip: the units sold are counted, not the sales.
atualiza_vendedor_mutant(entrada, venda) ==
    [total_vendas |-> FAdd(entrada.total_vendas, venda.valor_total),
     quantidade_vendas |-> entrada.quantidade_vendas + venda.quantidade]

\* stats[vendedor]['total_vendas'] += venda['valor_total']
\* stats[vendedor]['quantidade_vendas'] += 1
atualiza_vendedor(entrada, venda) ==
    [total_vendas |-> FAdd(entrada.total_vendas, venda.valor_total),
     quantidade_vendas |-> entrada.quantidade_vendas + 1]

\* The first loop of calcular_vendas_por_vendedor over the sales vs.
RECURSIVE acumula_por_vendedor(_, _)
acumula_por_vendedor(vs, stats) ==
    IF vs = <<>> THEN stats
    ELSE LET venda == Head(vs)
             vendedor == venda.vendedor
             entrada == dict_get(stats, vendedor,
                                 [total_vendas |-> FZero, quantidade_vendas |-> 0])
         IN  acumula_por_vendedor(Tail(vs),
                 dict_set(stats, vendedor, atualiza_vendedor(entrada, venda)))

\* total / qtd if qtd > 0 else 0.0
valor_medio(total, qtd) == IF qtd > 0 THEN FDivInt(total, qtd) ELSE FZero

calcular_vendas_por_vendedor ==
    LET stats == acumula_por_vendedor(vendas, <<>>)
    IN  [i \in 1..Len(stats) |->
            <<stats[i][1],
              [total_vendas |-> stats[i][2].total_vendas,
               quantidade_vendas |-> stats[i][2].quantidade_vendas,
               valor_medio |-> valor_medio(stats[i][2].total_vendas,
                                           stats[i][2].quantidade_vendas)]>>]

\* A plausible slip: the sales are counted, not the units sold.
atualiza_produto_mutant(entrada, venda) ==
    [total_vendido |-> FAdd(entrada.total_vendido, venda.valor_total),
     quantidade_vendida |-> entrada.quantidade_vendida + 1]

\* stats[produto]['total_vendido'] += venda['valor_total']
\* stats[produto]['quantidade_vendida'] += venda['quantidade']
atualiza_produto(entrada, venda) ==
    [total_vendido |-> FAdd(entrada.total_vendido, venda.valor_total),
     quantidade_vendida |-> entrada.quantidade_vendida + venda.quantidade]

\* The first loop of calcular_vendas_por_produto over the sales vs.
RECURSIVE acumula_por_produto(_, _)
acumula_por_produto(vs, stats) ==
    IF vs = <<>> THEN stats
    ELSE LET venda == Head(vs)
             produto == venda.produto
             entrada == dict_get(stats, produto,
                                 [total_vendido |-> FZero, quantidade_vendida |-> 0])
         IN  acumula_por_produto(Tail(vs),
                 dict_set(stats, produto, atualiza_produto(entrada, venda)))

calcular_vendas_por_produto ==
    LET stats == acumula_por_produto(vendas, <<>>)
    IN  [i \in 1..Len(stats) |->
            <<stats[i][1],
              [total_vendido |-> stats[i][2].total_vendido,
               quantidade_vendida |-> stats[i][2].quantidade_vendida,
               receita |-> stats[i][2].total_vendido]>>]

(***************************************************************************)
(* Python built-ins the queries use: comparison of floats, ints and strs,  *)
(* sorted, max, str.lower and the substring test.                          *)
(***************************************************************************)
\* x < y on floats that are not negative (false when either is nan)
FLt(x, y) == ~x.nan /\ ~y.nan /\ BCmp(x.n, y.n) = -1

\* ord(c) of the characters of a month key
Ord(c) == IF c = "-" THEN 45 ELSE 48 + DigitVal(c)

\* s < t on strs: by code point at the first difference, a prefix first.
RECURSIVE StrLt(_, _)
StrLt(s, t) ==
    IF t = <<>> THEN FALSE
    ELSE IF s = <<>> THEN TRUE
    ELSE IF Head(s) = Head(t) THEN StrLt(Tail(s), Tail(t))
    ELSE Ord(Head(s)) < Ord(Head(t))

\* A sort key: a float, an int or a str.
KFloat(x) == [tipo |-> "float", x |-> x]
KInt(v) == [tipo |-> "int", v |-> v]
KStr(t) == [tipo |-> "str", s |-> t]

\* a < b on two keys of one type
py_lt(a, b) ==
    IF a.tipo = "float" THEN FLt(a.x, b.x)
    ELSE IF a.tipo = "int" THEN a.v < b.v
    ELSE StrLt(a.s, b.s)

Reverse(a) == [i \in 1..Len(a) |-> a[Len(a) + 1 - i]]

\* list.sort of CPython on fewer than 64 elements; a is a sequence of
\* <<key, item>>.  count_run: the run the list starts with, ascending
\* (no element < the one before it) or strictly descending.
RECURSIVE run_end(_, _, _)
run_end(a, r, desc) ==
    IF r < Len(a) /\ (py_lt(a[r + 1][1], a[r][1]) <=> desc)
    THEN run_end(a, r + 1, desc)
    ELSE r

count_run(a) ==
    IF Len(a) < 2 THEN [n |-> Len(a), desc |-> FALSE]
    ELSE LET desc == py_lt(a[2][1], a[1][1])
         IN  [n |-> run_end(a, 2, desc), desc |-> desc]

\* binarysort: where the pivot goes among a[l..r-1] (0-based), found by
\* halving; an element equal to the pivot stays before it.
RECURSIVE binary_pos(_, _, _, _)
binary_pos(a, pivot, l, r) ==
    IF l >= r THEN l
    ELSE LET p == l + ((r - l) \div 2)
         IN  IF py_lt(pivot, a[p + 1][1])
             THEN binary_pos(a, pivot, l, p)
             ELSE binary_pos(a, pivot, p + 1, r)

\* binarysort: a[0..start-1] is sorted; insert the others one by one.
RECURSIVE binarysort(_, _)
binarysort(a, start) ==
    IF start >= Len(a) THEN a
    ELSE LET pivot == a[start + 1]
             l == binary_pos(a, pivot[1], 0, start)
         IN  binarysort(SubSeq(a, 1, l) \o <<pivot>> \o SubSeq(a, l + 1, start)
                            \o SubSeq(a, start + 2, Len(a)),
                        start + 1)

listsort(a) ==
    LET run == count_run(a)
        b == IF run.desc
             THEN Reverse(SubSeq(a, 1, run.n)) \o SubSeq(a, run.n + 1, Len(a))
             ELSE a
    IN  binarysort(b, run.n)

\* sorted(a, key=..., reverse=...): reverse=True reverses the list, sorts
\* it ascending and reverses it again.
sorted(a, reverse) ==
    IF reverse THEN Reverse(listsort(Reverse(a))) ELSE listsort(a)

\* max(a, key=...) of a non-empty a: the first item no later item is > than.
RECURSIVE max_from(_, _, _)
max_from(a, i, best) ==
    IF i > Len(a) THEN best
    ELSE max_from(a, i + 1, IF py_lt(best[1], a[i][1]) THEN a[i] ELSE best)

max(a) == max_from(a, 2, a[1])

\* a[:limite]
slice_ate(a, limite) ==
    IF limite >= 0
    THEN SubSeq(a, 1, IF limite < Len(a) THEN limite ELSE Len(a))
    ELSE SubSeq(a, 1, IF Len(a) + limite > 0 THEN Len(a) + limite ELSE 0)

Maiusculas ==
    <<"A", "B", "C", "D", "E", "F", "G", "H", "I", "J", "K", "L", "M",
      "N", "O", "P", "Q", "R", "S", "T", "U", "V", "W", "X", "Y", "Z">>
Minusculas ==
    <<"a", "b", "c", "d", "e", "f", "g", "h", "i", "j", "k", "l", "m",
      "n", "o", "p", "q", "r", "s", "t", "u", "v", "w", "x", "y", "z">>

lower_char(c) ==
    IF \E i \in 1..26 : Maiusculas[i] = c
    THEN Minusculas[CHOOSE i \in 1..26 : Maiusculas[i] = c]
    ELSE c

\* A plausible slip: the case is kept.
lower_mutant(t) == t

\* t.lower()
lower(t) == [i \in 1..Len(t) |-> lower_char(t[i])]

\* s in t: s occurs in t as a run of consecutive characters.
contains(t, s) ==
    \E i \in 0..(Len(t) - Len(s)) : SubSeq(t, i + 1, i + Len(s)) = s

(***************************************************************************)
(* The queries of SistemaVendas (RelatorioFinalEdu.py): what each returns  *)
(* on the sales stored, and the query functions each one runs.             *)
(***************************************************************************)
\* A plausible slip: the accumulator outlives the call (a shared default),
\* so a call that follows another one adds to what that one returned.
stats_mes_novo_mutant ==
    IF consulta # None /\ consulta[1].nome = "calcular_vendas_por_mes"
    THEN resultado[1] ELSE <<>>

\* stats = defaultdict(float): empty at every call
stats_mes_novo == <<>>

extrair_mes(data_obj) == strftime_Ym(data_obj)

\* The loop of calcular_vendas_por_mes over the sales vs.
RECURSIVE acumula_por_mes(_, _)
acumula_por_mes(vs, stats) ==
    IF vs = <<>> THEN stats
    ELSE LET venda == Head(vs)
             mes == extrair_mes(venda.data_obj)
         IN  acumula_por_mes(Tail(vs),
                 dict_set(stats, mes,
                          FAdd(dict_get(stats, mes, FZero), venda.valor_total)))

\* dict(sorted(stats.items())): the items are compared by their keys, which
\* differ from one another.
calcular_vendas_por_mes ==
    LET stats == acumula_por_mes(vendas, stats_mes_novo)
        ordenado == sorted([i \in 1..Len(stats) |-> <<KStr(stats[i][1]), stats[i]>>],
                           FALSE)
    IN  [i \in 1..Len(ordenado) |-> ordenado[i][2]]

\* A plausible slip: the list is cut one place too late.
ranking_vendedores_mutant(limite) ==
    LET stats_lista == calcular_vendas_por_vendedor
        ranking == sorted([i \in 1..Len(stats_lista) |->
                              <<KFloat(stats_lista[i][2].total_vendas), stats_lista[i]>>],
                          TRUE)
        topo == slice_ate(ranking, limite + 1)
    IN  [i \in 1..Len(topo) |-> <<topo[i][2][1], topo[i][2][2].total_vendas>>]

ranking_vendedores(limite) ==
    LET stats_lista == calcular_vendas_por_vendedor
        ranking == sorted([i \in 1..Len(stats_lista) |->
                              <<KFloat(stats_lista[i][2].total_vendas), stats_lista[i]>>],
                          TRUE)
        topo == slice_ate(ranking, limite)
    IN  [i \in 1..Len(topo) |-> <<topo[i][2][1], topo[i][2][2].total_vendas>>]

\* A plausible slip: the products are ranked by revenue.
ranking_produtos_mutant(limite) ==
    LET stats_lista == calcular_vendas_por_produto
        ranking == sorted([i \in 1..Len(stats_lista) |->
                              <<KFloat(stats_lista[i][2].receita), stats_lista[i]>>],
                          TRUE)
        topo == slice_ate(ranking, limite)
    IN  [i \in 1..Len(topo) |-> <<topo[i][2][1], topo[i][2][2].quantidade_vendida>>]

ranking_produtos(limite) ==
    LET stats_lista == calcular_vendas_por_produto
        ranking == sorted([i \in 1..Len(stats_lista) |->
                              <<KInt(stats_lista[i][2].quantidade_vendida), stats_lista[i]>>],
                          TRUE)
        topo == slice_ate(ranking, limite)
    IN  [i \in 1..Len(topo) |-> <<topo[i][2][1], topo[i][2][2].quantidade_vendida>>]

\* (None, 0.0), or the (mes, total) item max() picks: <<None or Some(mes), total>>
melhor_mes ==
    LET vendas_mes == calcular_vendas_por_mes
    IN  IF vendas_mes = <<>> THEN <<None, FZero>>
        ELSE LET item == max([i \in 1..Len(vendas_mes) |->
                                 <<KFloat(vendas_mes[i][2]), vendas_mes[i]>>])[2]
             IN  <<Some(item[1]), item[2]>>

\* A plausible slip: the next id is taken for the number of sales.
gerar_relatorio_geral_mutant ==
    IF vendas = <<>> THEN None
    ELSE Some([total_vendas |-> calcular_total_vendas,
               estatisticas_vendedor |-> calcular_vendas_por_vendedor,
               estatisticas_produto |-> calcular_vendas_por_produto,
               vendas_por_mes |-> calcular_vendas_por_mes,
               ranking_vendedores |-> ranking_vendedores(5),
               ranking_produtos |-> ranking_produtos(5),
               melhor_mes |-> melhor_mes,
               total_transacoes |-> contador_id])

gerar_relatorio_geral ==
    IF vendas = <<>> THEN None
    ELSE Some([total_vendas |-> calcular_total_vendas,
               estatisticas_vendedor |-> calcular_vendas_por_vendedor,
               estatisticas_produto |-> calcular_vendas_por_produto,
               vendas_por_mes |-> calcular_vendas_por_mes,
               ranking_vendedores |-> ranking_vendedores(5),
               ranking_produtos |-> ranking_produtos(5),
               melhor_mes |-> melhor_mes,
               total_transacoes |-> Len(vendas)])

\* produtos_vendidos[v['produto']] += v['quantidade'] over the sales vs
RECURSIVE acumula_produtos_vendidos(_, _)
acumula_produtos_vendidos(vs, produtos_vendidos) ==
    IF vs = <<>> THEN produtos_vendidos
    ELSE LET v == Head(vs)
         IN  acumula_produtos_vendidos(Tail(vs),
                 dict_set(produtos_vendidos, v.produto,
                          dict_get(produtos_vendidos, v.produto, 0) + v.quantidade))

gerar_relatorio_vendedor(nome_vendedor) ==
    LET do_vendedor(v) == contains(lower(v.vendedor), lower(nome_vendedor))
        vendas_do_vendedor == SelectSeq(vendas, do_vendedor)
        total_vendas == sum([i \in 1..Len(vendas_do_vendedor) |->
                                vendas_do_vendedor[i].valor_total])
        quantidade_vendas == Len(vendas_do_vendedor)
    IN  IF vendas_do_vendedor = <<>> THEN None
        ELSE Some([nome |-> vendas_do_vendedor[1].vendedor,
                   total_vendas |-> total_vendas,
                   quantidade_transacoes |-> quantidade_vendas,
                   valor_medio_transacao |-> valor_medio(total_vendas, quantidade_vendas),
                   produtos_vendidos |->
                       acumula_produtos_vendidos(vendas_do_vendedor, <<>>),
                   lista_vendas |-> vendas_do_vendedor])

\* The query functions that run during one call of each query, the call
\* itself included.
invoca_ranking_vendedores ==
    Mais(Uma("ranking_vendedores"), Uma("calcular_vendas_por_vendedor"))

invoca_ranking_produtos ==
    Mais(Uma("ranking_produtos"), Uma("calcular_vendas_por_produto"))

invoca_melhor_mes == Mais(Uma("melhor_mes"), Uma("calcular_vendas_por_mes"))

invoca_gerar_relatorio_geral ==
    IF vendas = <<>> THEN Uma("gerar_relatorio_geral")
    ELSE Mais(Uma("gerar_relatorio_geral"),
         Mais(Uma("calcular_total_vendas"),
         Mais(Uma("calcular_vendas_por_vendedor"),
         Mais(Uma("calcular_vendas_por_produto"),
         Mais(Uma("calcular_vendas_por_mes"),
         Mais(invoca_ranking_vendedores,
         Mais(invoca_ranking_produtos, invoca_melhor_mes)))))))

(***************************************************************************)
(* The queries as operations: each leaves the sales and the counter alone. *)
(***************************************************************************)
\* A call of the query nome with the arguments arg that returns valor.
Consulta(nome, arg, valor, inv) ==
    /\ variante = "RelatorioFinalEdu"
    /\ consulta' = Some([nome |-> nome, arg |-> arg])
    /\ resultado' = Some(valor)
    /\ invocacoes' = inv
    /\ lembrada' =
          IF lembrada = None
          THEN Some([nome |-> nome, arg |-> arg, resultado |-> valor,
                     outra |-> FALSE])
          ELSE Some([lembrada[1] EXCEPT
                        !.outra = @ \/ ~(lembrada[1].nome = nome
                                         /\ lembrada[1].arg = arg)])
    /\ UNCHANGED <<variante, vendas, contador_id, chamada, retorno>>

Consulta_calcular_total_vendas ==
    Consulta("calcular_total_vendas", <<>>, calcular_total_vendas,
             Uma("calcular_total_vendas"))

Consulta_calcular_vendas_por_vendedor ==
    Consulta("calcular_vendas_por_vendedor", <<>>, calcular_vendas_por_vendedor,
             Uma("calcular_vendas_por_vendedor"))

Consulta_calcular_vendas_por_produto ==
    Consulta("calcular_vendas_por_produto", <<>>, calcular_vendas_por_produto,
             Uma("calcular_vendas_por_produto"))

Consulta_calcular_vendas_por_mes ==
    Consulta("calcular_vendas_por_mes", <<>>, calcular_vendas_por_mes,
             Uma("calcular_vendas_por_mes"))

Consulta_ranking_vendedores(limite) ==
    Consulta("ranking_vendedores", <<limite>>, ranking_vendedores(limite),
             invoca_ranking_vendedores)

Consulta_ranking_produtos(limite) ==
    Consulta("ranking_produtos", <<limite>>, ranking_produtos(limite),
             invoca_ranking_produtos)

Consulta_melhor_mes ==
    Consulta("melhor_mes", <<>>, melhor_mes, invoca_melhor_mes)

Consulta_gerar_relatorio_geral ==
    Consulta("gerar_relatorio_geral", <<>>, gerar_relatorio_geral,
             invoca_gerar_relatorio_geral)

Consulta_gerar_relatorio_vendedor(nome_vendedor) ==
    Consulta("gerar_relatorio_vendedor", <<nome_vendedor>>,
             gerar_relatorio_vendedor(nome_vendedor),
             Uma("gerar_relatorio_vendedor"))

(***************************************************************************)
(* Specifications.  The list of sales is capped: a call that would store   *)
(* a sale beyond the cap is not explored; a call that is rejected always   *)
(* is.                                                                     *)
(***************************************************************************)
Rejeitada(c) ==
    IF variante = "AnaliseVendasEdu"
    THEN rejeita(c.produto, c.vendedor, c.quantidade, c.valor_unitario, c.data)
    ELSE SistemaVendas_rejeita(c.produto, c.vendedor, c.quantidade,
                               c.valor_unitario, c.data)

Cabe(c, cap) == Len(vendas) < cap \/ Rejeitada(c)

Next ==
    \E c \in Chamadas :
        /\ Cabe(c, MaxVendas)
        /\ \/ registrar_venda(c.produto, c.vendedor, c.quantidade,
                              c.valor_unitario, c.data)
           \/ SistemaVendas_registrar_venda(c.produto, c.vendedor, c.quantidade,
                                            c.valor_unitario, c.data)

Spec == Init /\ [][Next]_vars

NextAgregacao ==
    \E c \in ChamadasAgregacao :
        /\ Cabe(c, MaxVendasAgregacao)
        /\ \/ registrar_venda(c.produto, c.vendedor, c.quantidade,
                              c.valor_unitario, c.data)
           \/ SistemaVendas_registrar_venda(c.produto, c.vendedor, c.quantidade,
                                            c.valor_unitario, c.data)

SpecAgregacao == Init /\ [][NextAgregacao]_vars

\* Under SpecConsultas every query is called on every list of sales that
\* SistemaVendas.registrar_venda builds, one query after each call of it.
NextConsultas ==
    \/ \E c \in ChamadasConsultas :
          /\ Cabe(c, MaxVendasConsultas)
          /\ SistemaVendas_registrar_venda(c.produto, c.vendedor, c.quantidade,
                                           c.valor_unitario, c.data)
    \/ consulta = None /\ Consulta_calcular_total_vendas
    \/ consulta = None /\ Consulta_calcular_vendas_por_vendedor
    \/ consulta = None /\ Consulta_calcular_vendas_por_produto
    \/ consulta = None /\ Consulta_calcular_vendas_por_mes
    \/ consulta = None /\ \E limite \in Limites : Consulta_ranking_vendedores(limite)
    \/ consulta = None /\ \E limite \in Limites : Consulta_ranking_produtos(limite)
    \/ consulta = None /\ Consulta_melhor_mes
    \/ consulta = None /\ Consulta_gerar_relatorio_geral
    \/ consulta = None /\ \E nome \in Nomes : Consulta_gerar_relatorio_vendedor(nome)

SpecConsultas == Init /\ [][NextConsultas]_vars

\* Under SpecIdempotencia the queries follow one another in any order
\* between the calls of SistemaVendas.registrar_venda.
NextIdempotencia ==
    \/ \E c \in ChamadasIdempotencia :
          /\ Cabe(c, MaxVendasIdempotencia)
          /\ SistemaVendas_registrar_venda(c.produto, c.vendedor, c.quantidade,
                                           c.valor_unitario, c.data)
    \/ Consulta_calcular_total_vendas
    \/ Consulta_calcular_vendas_por_vendedor
    \/ Consulta_calcular_vendas_por_produto
    \/ Consulta_calcular_vendas_por_mes
    \/ \E limite \in Limites : Consulta_ranking_vendedores(limite)
    \/ \E limite \in Limites : Consulta_ranking_produtos(limite)
    \/ Consulta_melhor_mes
    \/ Consulta_gerar_relatorio_geral
    \/ \E nome \in Nomes : Consulta_gerar_relatorio_vendedor(nome)

SpecIdempotencia == Init /\ [][NextIdempotencia]_vars

(***************************************************************************)
(* Vocabulary of the claims, stated apart from the code's own checks.      *)
(***************************************************************************)
Chamou == chamada # None
Arg == chamada[1]
Aceitou == Chamou /\ retorno # None

\* Empty once trimmed: nothing but whitespace.
SoEspacos(t) == \A i \in 1..Len(t) : t[i] \in Whitespace

\* Trimmed: neither end is whitespace.
Aparado(t) == t = <<>> \/ (t[1] \notin Whitespace /\ t[Len(t)] \notin Whitespace)

\* The quantity given is not a positive integer.
QuantidadeInvalida(c) == c.quantidade.tipo = "float" \/ c.quantidade.v <= 0

\* The unit price given is not a number, or is a number <= 0.
ValorInvalido(c) ==
    \/ c.valor_unitario.tipo = "str"
    \/ (~c.valor_unitario.x.nan /\ (c.valor_unitario.x.neg \/ c.valor_unitario.x.n = <<>>))

\* The years written in the dates of the model.
Anos == {999, 2023, 2024}

\* The ways of writing month m or day d: two digits, or without the zero.
Escritas(n) == {Pad2(n), IntToText(n)}

\* The number of days of month m of year y; of the years of the model
\* only 2024 is a leap year.
DiasDoMes(y, m) ==
    IF m = 2 THEN (IF y = 2024 THEN 29 ELSE 28)
    ELSE IF m \in {4, 6, 9, 11} THEN 30 ELSE 31

\* The ways of writing the date y-m-d: a four-digit year, '-', month, '-',
\* day, month and day with or without zero padding, a one-digit day also
\* with a blank in place of the zero.
EscritasDaData(y, m, d) ==
    {Pad4(y) \o <<"-">> \o mm \o <<"-">> \o dd :
        mm \in Escritas(m),
        dd \in Escritas(d) \cup (IF d < 10 THEN {<<" ">> \o IntToText(d)} ELSE {})}

EscritasDoMes(y, m) == UNION {EscritasDaData(y, m, d) : d \in 1..DiasDoMes(y, m)}

\* The texts that write a real calendar date of the years of the model.
DatasEscritas == UNION {EscritasDoMes(y, m) : y \in Anos, m \in 1..12}

\* Four digits, '-', two digits, '-', two digits.
FormaYYYYMMDD(t) ==
    /\ Len(t) = 10
    /\ t[5] = "-" /\ t[8] = "-"
    /\ \A i \in {1, 2, 3, 4, 6, 7, 9, 10} : t[i] \in Digits

(***************************************************************************)
(* C1.  After any sequence of registrar_venda calls, accepted and rejected *)
(* mixed, the i-th stored sale has id i: ids start at 1, increase by 1 in  *)
(* insertion order, and none is skipped or used twice.                     *)
(***************************************************************************)
C1_IdsSequenciais == \A i \in 1..Len(vendas) : vendas[i].id = i

\* Two sales are stored and the last call was a rejected one.
C1_Witness == Len(vendas) >= 2 /\ Chamou /\ retorno = None

(***************************************************************************)
(* C2.  A call of registrar_venda that fails a validation (a text missing, *)
(* a quantity that is not a positive integer, a price that is not a        *)
(* positive number, a date text the variant does not take) returns None;   *)
(* a call that returns None leaves the list of sales and the id counter as *)
(* they were; and an accepted sale gets the id after the number of sales   *)
(* stored before it, whatever calls were rejected in between.              *)
(***************************************************************************)
C2_FalhaValidacao(c) ==
    \/ c.produto = <<>> \/ c.vendedor = <<>> \/ c.data = <<>>
    \/ QuantidadeInvalida(c)
    \/ ValorInvalido(c)
    \/ (variante = "AnaliseVendasEdu" /\ Len(c.data) # 10)
    \/ (variante = "RelatorioFinalEdu" /\ c.data \notin DatasEscritas)

\* C2: a call that fails a validation returns None, a call that returns None
\* changes neither the sales nor the counter, and an accepted sale gets the
\* id after the number of sales stored before it.
C2_RejeicaoNaoAltera ==
    [][/\ C2_FalhaValidacao(chamada'[1]) => retorno' = None
       /\ retorno' = None => (vendas' = vendas /\ contador_id' = contador_id)
       /\ retorno' # None => /\ retorno'[1].id = Len(vendas) + 1
                             /\ vendas' = Append(vendas, retorno'[1])]_vars

\* A sale is stored and the last call, with quantity 0, was rejected.
C2_Witness ==
    /\ Len(vendas) >= 1 /\ Chamou /\ retorno = None
    /\ Arg.quantidade = QInt(0)
    /\ contador_id = Len(vendas) + 1

(***************************************************************************)
(* C3.  registrar_venda rejects every call whose product, seller or date   *)
(* is empty once its whitespace is trimmed, and so every stored sale has a *)
(* product and a seller that are trimmed and not empty.                    *)
(***************************************************************************)
C3_RejeitaTextoEmBranco ==
    /\ Chamou /\ (SoEspacos(Arg.produto) \/ SoEspacos(Arg.vendedor) \/ SoEspacos(Arg.data))
          => retorno = None
    /\ \A i \in 1..Len(vendas) :
          /\ vendas[i].produto # <<>> /\ Aparado(vendas[i].produto)
          /\ vendas[i].vendedor # <<>> /\ Aparado(vendas[i].vendedor)

(***************************************************************************)
(* C4.  In both variants a call whose date text names no real calendar     *)
(* date (month 13, say), its other arguments valid, returns None.          *)
(***************************************************************************)
C4_RejeitaDataInexistente ==
    (/\ Chamou
     /\ Arg.produto # <<>> /\ Arg.vendedor # <<>>
     /\ ~QuantidadeInvalida(Arg) /\ ~ValorInvalido(Arg)
     /\ Arg.data \notin DatasEscritas)
        => retorno = None

C6_QuantidadeEValorPositivos ==
    /\ Aceitou => /\ Arg.quantidade.tipo \in {"int", "bool"} /\ Arg.quantidade.v > 0
                  /\ Arg.valor_unitario.tipo \in {"int", "float"}
                  /\ FGtZero(Arg.valor_unitario.x)
    /\ \A i \in 1..Len(vendas) :
          vendas[i].quantidade > 0 /\ FGtZero(vendas[i].valor_unitario)

(***************************************************************************)
(* C7.  Every sale stored by SistemaVendas.registrar_venda has valor_total *)
(* equal to quantidade * valor_unitario rounded to two decimal places (the *)
(* float of the nearest whole number of cents, a tie going to the even     *)
(* one), and no later call changes the total of a sale already stored.     *)
(***************************************************************************)
\* k cents is the whole number of cents nearest to x, the even one on a tie:
\* (2k-1)/2 <= 100x <= (2k+1)/2, with equality only for an even k.
C7_CentavoMaisProximo(x, k) ==
    LET y == BMulSmall(x.n, 100)
        lo == IF k = 0 THEN <<>> ELSE BShl(BFromInt(2 * k - 1), FracBits - 1)
        hi == BShl(BFromInt(2 * k + 1), FracBits - 1)
    IN  /\ BCmp(lo, y) <= 0
        /\ BCmp(y, hi) <= 0
        /\ (BCmp(lo, y) = 0 \/ BCmp(y, hi) = 0) => k % 2 = 0

\* t is x rounded to two decimal places.
C7_Arredondado(t, x) ==
    IF x.nan THEN t.nan
    ELSE LET k0 == BToInt(BShr(BMulSmall(x.n, 100), FracBits))
         IN  \E k \in k0..(k0 + 1) :
                 C7_CentavoMaisProximo(x, k) /\ t = FloatOfDecimal(k, 2)

C7_TotaisArredondados ==
    variante = "RelatorioFinalEdu" =>
        \A i \in 1..Len(vendas) :
            C7_Arredondado(vendas[i].valor_total,
                           FMulInt(vendas[i].quantidade, vendas[i].valor_unitario))

\* C7: every total stored by SistemaVendas.registrar_venda is the product
\* rounded to two decimal places, and a stored total never changes.
C7_TotalArredondadoEFixo ==
    /\ []C7_TotaisArredondados
    /\ [][\A i \in 1..Len(vendas) :
             /\ i <= Len(vendas')
             /\ vendas'[i].valor_total = vendas[i].valor_total]_vars

\* Two units at 0.1875 were stored as 0.38 (0.375 is a tie between 0.37 and
\* 0.38), two at 2.675 as 5.35, and a rejected call followed.
C7_Witness ==
    /\ variante = "RelatorioFinalEdu"
    /\ Len(vendas) = 2
    /\ vendas[1].quantidade = 2
    /\ vendas[1].valor_unitario = FloatOfDecimal(1875, 4)
    /\ vendas[1].valor_total = FloatOfDecimal(38, 2)
    /\ vendas[2].valor_unitario = FloatOfDecimal(2675, 3)
    /\ vendas[2].valor_total = FloatOfDecimal(535, 2)
    /\ Chamou /\ retorno = None

(***************************************************************************)
(* C8.  In every state the total_vendas of the sellers of                  *)
(* calcular_vendas_por_vendedor add up to what the receita of the products *)
(* of calcular_vendas_por_produto add up to, and both to                   *)
(* calcular_total_vendas.  (At most two sellers and two products occur, so *)
(* the order in which the groups are added does not matter.)               *)
(***************************************************************************)
C8_SomaPorVendedor ==
    sum([i \in 1..Len(calcular_vendas_por_vendedor) |->
            calcular_vendas_por_vendedor[i][2].total_vendas])

C8_SomaPorProduto ==
    sum([i \in 1..Len(calcular_vendas_por_produto) |->
            calcular_vendas_por_produto[i][2].receita])

\* C8: the totals by seller, the revenues by product and the grand total
\* add up to the same amount.
C8_ConservacaoDaReceita ==
    /\ FEq(C8_SomaPorVendedor, C8_SomaPorProduto)
    /\ FEq(C8_SomaPorProduto, calcular_total_vendas)

(***************************************************************************)
(* C9.  The keys of calcular_vendas_por_vendedor are the distinct seller   *)
(* texts of the stored sales, each once, compared exactly; for a key s,    *)
(* total_vendas is the sum of valor_total of the sales of s in the order   *)
(* stored, quantidade_vendas the number of those sales, at least 1, and    *)
(* valor_medio is total_vendas / quantidade_vendas.  Sales of 2000.00 and  *)
(* 50.00 by one seller give 2050.00, 2 and 1025.00.                        *)
(***************************************************************************)
\* The sales, in the order stored, that satisfy Tem.
Filtra(Tem(_)) == SelectSeq(vendas, Tem)

\* The totals of the sales vs added from the first one on.
RECURSIVE SomaDosTotais(_)
SomaDosTotais(vs) ==
    IF vs = <<>> THEN FZero
    ELSE FAdd(SomaDosTotais(SubSeq(vs, 1, Len(vs) - 1)), vs[Len(vs)].valor_total)

Totais(vs) == [i \in 1..Len(vs) |-> vs[i].valor_total]

\* C9: calcular_vendas_por_vendedor has one key per distinct seller text,
\* with the sum, the count and the average of the sales of that seller.
C9_PorVendedor ==
    LET r == calcular_vendas_por_vendedor
    IN  /\ {r[i][1] : i \in 1..Len(r)} = {vendas[j].vendedor : j \in 1..Len(vendas)}
        /\ \A i, j \in 1..Len(r) : r[i][1] = r[j][1] => i = j
        /\ \A i \in 1..Len(r) :
              LET dele(v) == v.vendedor = r[i][1]
                  vs == Filtra(dele)
                  e == r[i][2]
              IN  /\ e.quantidade_vendas = Len(vs)
                  /\ e.quantidade_vendas >= 1
                  /\ e.total_vendas = SomaDosTotais(vs)
                  /\ e.valor_medio = FDivInt(e.total_vendas, e.quantidade_vendas)
                  /\ Totais(vs) = <<FloatOfInt(2000), FloatOfInt(50)>> =>
                        /\ e.total_vendas = FloatOfInt(2050)
                        /\ e.quantidade_vendas = 2
                        /\ e.valor_medio = FloatOfInt(1025)

\* "Ana" sold two Notebooks at 1000.00 and then a Mouse at 50.00, and "ana"
\* made the sale in between.
C9_Witness ==
    /\ variante = "RelatorioFinalEdu"
    /\ Len(vendas) = 3
    /\ vendas[1].vendedor = TextoAna /\ vendas[1].valor_total = FloatOfInt(2000)
    /\ vendas[1].quantidade = 2
    /\ vendas[2].vendedor = TextoAnaMinusculo
    /\ vendas[3].vendedor = TextoAna /\ vendas[3].valor_total = FloatOfInt(50)
    /\ Len(calcular_vendas_por_vendedor) = 2

(***************************************************************************)
(* C10.  The keys of calcular_vendas_por_produto are the distinct product  *)
(* texts of the stored sales, each once; for a key p, receita is the sum   *)
(* of valor_total and quantidade_vendida the sum of quantidade of the      *)
(* sales of p.                                                             *)
(***************************************************************************)
RECURSIVE SomaDasQuantidades(_)
SomaDasQuantidades(vs) ==
    IF vs = <<>> THEN 0
    ELSE SomaDasQuantidades(SubSeq(vs, 1, Len(vs) - 1)) + vs[Len(vs)].quantidade

\* C10: calcular_vendas_por_produto has one key per distinct product text,
\* with the revenue and the units sold of the sales of that product.
C10_PorProduto ==
    LET r == calcular_vendas_por_produto
    IN  /\ {r[i][1] : i \in 1..Len(r)} = {vendas[j].produto : j \in 1..Len(vendas)}
        /\ \A i, j \in 1..Len(r) : r[i][1] = r[j][1] => i = j
        /\ \A i \in 1..Len(r) :
              LET dele(v) == v.produto = r[i][1]
                  vs == Filtra(dele)
                  e == r[i][2]
              IN  /\ e.receita = SomaDosTotais(vs)
                  /\ e.quantidade_vendida = SomaDasQuantidades(vs)

\* Two Mouses were sold, then a Notebook, then one Mouse more.
C10_Witness ==
    /\ variante = "RelatorioFinalEdu"
    /\ Len(vendas) = 3
    /\ vendas[1].produto = TextoMouse /\ vendas[1].quantidade = 2
    /\ vendas[2].produto = TextoNotebook
    /\ vendas[3].produto = TextoMouse /\ vendas[3].quantidade = 1
    /\ Len(calcular_vendas_por_produto) = 2

(***************************************************************************)
(* Vocabulary of the claims about the queries.                             *)
(***************************************************************************)
\* The last call was the query nome.
Consultou(nome) == consulta # None /\ consulta[1].nome = nome

\* The month of a stored sale, as <<year, month>>, and one month before
\* another.
MesDe(v) == <<v.data_obj.year, v.data_obj.month>>
MesAntes(a, b) == a[1] < b[1] \/ (a[1] = b[1] /\ a[2] < b[2])

\* The month written YYYY-MM.
ChaveDoMes(m) == Pad4(m[1]) \o <<"-">> \o Pad2(m[2])

\* The months of the stored sales.
MesesDasVendas == {MesDe(vendas[j]) : j \in 1..Len(vendas)}

\* The month a key names, if it names one of the months of the stored sales
\* in either way the year is written.
MesDaChave(k) ==
    CHOOSE m \in MesesDasVendas : k \in {ChaveDoMes(m), extrair_mes([year |-> m[1], month |-> m[2]])}

(***************************************************************************)
(* C11.  calcular_vendas_por_mes returns one entry for each month of the   *)
(* stored dates, keyed YYYY-MM, holding the sum of valor_total of the      *)
(* sales of that month, and the entries come in chronological order        *)
(* whatever the order in which the sales were stored.                      *)
(***************************************************************************)
C11_PorMesEmOrdem ==
    Consultou("calcular_vendas_por_mes") =>
        LET r == resultado[1]
        IN  /\ {r[i][1] : i \in 1..Len(r)} = {ChaveDoMes(m) : m \in MesesDasVendas}
            /\ Len(r) = Cardinality(MesesDasVendas)
            /\ \A i \in 1..Len(r) :
                  \A m \in MesesDasVendas :
                      r[i][1] = ChaveDoMes(m) =>
                          LET do_mes(v) == MesDe(v) = m
                          IN  r[i][2] = SomaDosTotais(Filtra(do_mes))
            /\ \A i, j \in 1..Len(r) :
                  i < j => MesAntes(MesDaChave(r[i][1]), MesDaChave(r[j][1]))

(***************************************************************************)
(* C12.  ranking_vendedores(limite), limite >= 0, returns the first        *)
(* min(limite, number of sellers) pairs (seller, total) of the seller      *)
(* aggregates put in descending order of total, sellers of equal total in  *)
(* the order of their first sale; a limit above the number of sellers      *)
(* returns them all; and it is what ranking_vendedores(limite + 10) starts *)
(* with.                                                                   *)
(***************************************************************************)
\* Where the seller (or product) t first appears among the aggregates ag.
Lugar(ag, t) == CHOOSE p \in 1..Len(ag) : ag[p][1] = t

Min(a, b) == IF a < b THEN a ELSE b

C12_RankingVendedores ==
    Consultou("ranking_vendedores") =>
        LET r == resultado[1]
            limite == consulta[1].arg[1]
            ag == calcular_vendas_por_vendedor
            dentro == {r[i][1] : i \in 1..Len(r)}
        IN  /\ Len(r) = Min(limite, Len(ag))
            /\ \A i, j \in 1..Len(r) : r[i][1] = r[j][1] => i = j
            /\ \A i \in 1..Len(r) :
                  \E p \in 1..Len(ag) :
                      r[i] = <<ag[p][1], ag[p][2].total_vendas>>
            /\ \A i, j \in 1..Len(r) :
                  i < j => /\ ~FLt(r[i][2], r[j][2])
                           /\ r[i][2] = r[j][2] => Lugar(ag, r[i][1]) < Lugar(ag, r[j][1])
            /\ \A i \in 1..Len(r) :
                  \A p \in 1..Len(ag) :
                      ag[p][1] \notin dentro =>
                          /\ ~FLt(r[i][2], ag[p][2].total_vendas)
                          /\ r[i][2] = ag[p][2].total_vendas => Lugar(ag, r[i][1]) < p
            /\ r = SubSeq(ranking_vendedores(limite + 10), 1, Len(r))

(***************************************************************************)
(* C13.  ranking_produtos(limite), limite >= 0, returns the first          *)
(* min(limite, number of products) pairs (product, units sold) of the      *)
(* product aggregates put in descending order of units sold, not of        *)
(* revenue, products of equal units sold in the order of their first sale. *)
(***************************************************************************)
C13_RankingProdutos ==
    Consultou("ranking_produtos") =>
        LET r == resultado[1]
            limite == consulta[1].arg[1]
            ag == calcular_vendas_por_produto
            dentro == {r[i][1] : i \in 1..Len(r)}
        IN  /\ Len(r) = Min(limite, Len(ag))
            /\ \A i, j \in 1..Len(r) : r[i][1] = r[j][1] => i = j
            /\ \A i \in 1..Len(r) :
                  \E p \in 1..Len(ag) :
                      r[i] = <<ag[p][1], ag[p][2].quantidade_vendida>>
            /\ \A i, j \in 1..Len(r) :
                  i < j => /\ r[i][2] >= r[j][2]
                           /\ r[i][2] = r[j][2] => Lugar(ag, r[i][1]) < Lugar(ag, r[j][1])
            /\ \A i \in 1..Len(r) :
                  \A p \in 1..Len(ag) :
                      ag[p][1] \notin dentro =>
                          /\ r[i][2] >= ag[p][2].quantidade_vendida
                          /\ r[i][2] = ag[p][2].quantidade_vendida => Lugar(ag, r[i][1]) < p

\* Two Notebooks at 1000.00 were sold, then one Mouse and two Mouses at
\* 50.00: Mouse comes first with 3 units, though Notebook earned more.
C13_Witness ==
    /\ Consultou("ranking_produtos") /\ consulta[1].arg[1] = 5
    /\ Len(vendas) = 3
    /\ vendas[1].produto = TextoNotebook /\ vendas[1].quantidade = 2
    /\ vendas[2].produto = TextoMouse /\ vendas[2].quantidade = 1
    /\ vendas[3].produto = TextoMouse /\ vendas[3].quantidade = 2
    /\ resultado[1] = <<<<TextoMouse, 3>>, <<TextoNotebook, 2>>>>

(***************************************************************************)
(* C14.  melhor_mes returns (None, 0.0) when no sale is stored; otherwise  *)
(* it returns a (month, total) entry of calcular_vendas_por_mes whose      *)
(* total no other month's exceeds or fails to compare with, and of the     *)
(* months that share that total the earliest.                              *)
(***************************************************************************)
C14_MelhorMes ==
    Consultou("melhor_mes") =>
        LET r == resultado[1]
            vm == calcular_vendas_por_mes
        IN  IF vendas = <<>> THEN r = <<None, FZero>>
            ELSE /\ r[1] # None
                 /\ \E i \in 1..Len(vm) : vm[i] = <<r[1][1], r[2]>>
                 /\ \A i \in 1..Len(vm) : vm[i][2] = r[2] \/ FLt(vm[i][2], r[2])
                 /\ \A i \in 1..Len(vm) :
                       vm[i][2] = r[2] =>
                           ~MesAntes(MesDaChave(vm[i][1]), MesDaChave(r[1][1]))

(***************************************************************************)
(* C15.  gerar_relatorio_geral returns None exactly when no sale is        *)
(* stored; otherwise its total_vendas is the sum of the stored             *)
(* valor_total, its total_transacoes the number of stored sales, and its   *)
(* aggregates by seller, product and month, its two rankings of limit 5    *)
(* and its best month are what the queries return on the same sales.       *)
(***************************************************************************)
C15_RelatorioGeral ==
    Consultou("gerar_relatorio_geral") =>
        LET r == resultado[1]
        IN  /\ r = None <=> vendas = <<>>
            /\ r # None =>
                  /\ r[1].total_vendas = SomaDosTotais(vendas)
                  /\ r[1].total_transacoes = Len(vendas)
                  /\ r[1].estatisticas_vendedor = calcular_vendas_por_vendedor
                  /\ r[1].estatisticas_produto = calcular_vendas_por_produto
                  /\ r[1].vendas_por_mes = calcular_vendas_por_mes
                  /\ r[1].ranking_vendedores = ranking_vendedores(5)
                  /\ r[1].ranking_produtos = ranking_produtos(5)
                  /\ r[1].melhor_mes = melhor_mes

\* The report on: 2 Notebooks at 1000.00 by "Ana Pereira" on 2024-01-15,
\* 1 Mouse at 50.00 by "ana" on 2024-02-29, 2 Mouses at 50.00 by "Bia" on
\* 2024-1-5.
C15_Witness ==
    /\ Consultou("gerar_relatorio_geral")
    /\ Len(vendas) = 3
    /\ resultado[1] # None
    /\ resultado[1][1].total_vendas = FloatOfInt(2150)
    /\ resultado[1][1].total_transacoes = 3
    /\ resultado[1][1].vendas_por_mes =
          <<<<<<"2", "0", "2", "4", "-", "0", "1">>, FloatOfInt(2100)>>,
            <<<<"2", "0", "2", "4", "-", "0", "2">>, FloatOfInt(50)>>>>
    /\ resultado[1][1].ranking_vendedores =
          <<<<TextoAnaPereira, FloatOfInt(2000)>>, <<TextoBia, FloatOfInt(100)>>,
            <<TextoAnaMinusculo, FloatOfInt(50)>>>>
    /\ resultado[1][1].ranking_produtos = <<<<TextoMouse, 3>>, <<TextoNotebook, 2>>>>
    /\ resultado[1][1].melhor_mes =
          <<Some(<<"2", "0", "2", "4", "-", "0", "1">>), FloatOfInt(2100)>>

(***************************************************************************)
(* C16.  gerar_relatorio_vendedor(nome) selects the stored sales whose     *)
(* seller contains nome when upper and lower case are taken as the same;   *)
(* it returns None when there is none, and otherwise the seller of the     *)
(* first of them as stored, their number, the sum of their valor_total,    *)
(* that sum divided by their number, the units sold of each of their       *)
(* products, and the sales themselves in the order stored.                 *)
(***************************************************************************)
\* The same character, or the same letter in the other case.
MesmaLetra(c, d) ==
    \/ c = d
    \/ \E i \in 1..26 : {c, d} = {Maiusculas[i], Minusculas[i]}

\* nome occurs in t, upper and lower case taken as the same.
ContemSemCaixa(t, nome) ==
    \E i \in 0..(Len(t) - Len(nome)) :
        \A k \in 1..Len(nome) : MesmaLetra(t[i + k], nome[k])

C16_RelatorioVendedor ==
    Consultou("gerar_relatorio_vendedor") =>
        LET r == resultado[1]
            nome == consulta[1].arg[1]
            dele(v) == ContemSemCaixa(v.vendedor, nome)
            vs == Filtra(dele)
        IN  /\ r = None <=> vs = <<>>
            /\ r # None =>
                  /\ r[1].lista_vendas = vs
                  /\ r[1].nome = vs[1].vendedor
                  /\ r[1].quantidade_transacoes = Len(vs)
                  /\ r[1].total_vendas = SomaDosTotais(vs)
                  /\ r[1].valor_medio_transacao = FDivInt(SomaDosTotais(vs), Len(vs))
                  /\ LET pv == r[1].produtos_vendidos
                     IN  /\ {pv[i][1] : i \in 1..Len(pv)} = {vs[j].produto : j \in 1..Len(vs)}
                         /\ \A i, j \in 1..Len(pv) : pv[i][1] = pv[j][1] => i = j
                         /\ \A i \in 1..Len(pv) :
                               LET do_produto(v) == v.produto = pv[i][1]
                               IN  pv[i][2] = SomaDasQuantidades(SelectSeq(vs, do_produto))

\* "ana" selects the sale of "Ana Pereira" (2 Notebooks at 1000.00) and the
\* sale of "ana" (1 Mouse at 50.00), not the sale of "Bia".
C16_Witness ==
    /\ Consultou("gerar_relatorio_vendedor")
    /\ consulta[1].arg[1] = TextoAnaMinusculo
    /\ Len(vendas) = 3
    /\ vendas[3].vendedor = TextoBia
    /\ resultado[1] # None
    /\ resultado[1][1].nome = TextoAnaPereira
    /\ resultado[1][1].quantidade_transacoes = 2
    /\ resultado[1][1].total_vendas = FloatOfInt(2050)
    /\ resultado[1][1].valor_medio_transacao = FloatOfInt(1025)
    /\ resultado[1][1].produtos_vendidos = <<<<TextoNotebook, 2>>, <<TextoMouse, 1>>>>

(***************************************************************************)
(* C17.  During one call of gerar_relatorio_geral with sales stored, each  *)
(* of calcular_vendas_por_vendedor, calcular_vendas_por_produto,           *)
(* calcular_vendas_por_mes, ranking_vendedores, ranking_produtos and       *)
(* melhor_mes runs exactly once, the runs made from inside the rankings    *)
(* and melhor_mes counted.                                                 *)
(***************************************************************************)
C17_CadaAgregacaoUmaVez ==
    (Consultou("gerar_relatorio_geral") /\ vendas # <<>>) =>
        \A f \in {"calcular_vendas_por_vendedor", "calcular_vendas_por_produto",
                  "calcular_vendas_por_mes", "ranking_vendedores",
                  "ranking_produtos", "melhor_mes"} :
            invocacoes[f] = 1

(***************************************************************************)
(* C18.  The stored sales only grow at the end: every step keeps each      *)
(* stored sale at its place with its fields, a query leaves the list and   *)
(* the id counter as they were, a rejected registrar_venda too, and an     *)
(* accepted registrar_venda adds exactly one sale after the others.        *)
(***************************************************************************)
C18_SoAcrescenta ==
    [][ /\ Len(vendas') >= Len(vendas)
        /\ \A i \in 1..Len(vendas) : vendas'[i] = vendas[i]
        /\ consulta' # None => vendas' = vendas /\ contador_id' = contador_id
        /\ (consulta' = None /\ retorno' = None) =>
               vendas' = vendas /\ contador_id' = contador_id
        /\ (consulta' = None /\ retorno' # None) =>
               /\ Len(vendas') = Len(vendas) + 1
               /\ retorno' = Some(vendas'[Len(vendas')])
      ]_vars

\* A query answered on two stored sales.
C18_Witness ==
    /\ Len(vendas) = 2
    /\ vendas[1].id = 1
    /\ vendas[2].id = 2
    /\ consulta # None

=============================================================================
